---------------------------- MODULE Spec2Model ----------------------------
(***************************************************************************)
(* ArenaX authority plane: the M-of-N governance multisig contract, the    *)
(* slashing contract and the off-chain match authority service.            *)
(*                                                                         *)
(* Each subsystem has its own specification (SpecGov, SpecSlash,           *)
(* SpecMatch); the variables of the other subsystems stay at their         *)
(* initial values.                                                         *)
(*                                                                         *)
(* A Soroban contract call is one transaction: a call that returns Err or  *)
(* panics is rolled back by the host and leaves no trace, so a rejected    *)
(* call is modelled by its result operator (xxx_result /= "Ok") and only   *)
(* accepted calls are actions.                                             *)
(***************************************************************************)
EXTENDS Integers, Sequences, FiniteSets, TLC

(***************************************************************************)
(* Bounds and input domains                                                *)
(***************************************************************************)
Addresses == {"s1", "s2", "s3"}
PIds == {"p1"}
SelfAddress == "gov"
Targets == {"ext", SelfAddress}
\* Option::None of an Option<u64>
None == -1

\* program constants (GovernanceConfig written by initialize)
max_signers == 20
proposal_ttl == 604800

\* the ledger times observed: creation, one second later, and the last second
\* before and the first second after the expiry of a proposal created at 0
LedgerTimes == {0, 1, proposal_ttl, proposal_ttl + 1}
\* the largest execute_after a proposal is created with
MaxDelay == 1
\* slashing contract: inputs
CaseIds == {"c1", "c2"}
Subjects == {"u1", "u2"}
AdminAddress == "admin"
\* ledger time of the slashing contract stops at MaxSlashTime
MaxSlashTime == 2
\* the longest suspension asked for
MaxDuration == 2

\* match authority service: inputs
Workers == {1, 2}
PlayerStrings == {"GA", "GB", "short"}
\* the player pairs create_match is called with
CreateInputs == { <<"GA", "GB">>, <<"GA", "GA">>, <<"short", "GB">> }
NoKey == ""
Keys == {"k1"}
\* transactions the gateway submits in one run
MaxChainCalls == 5
\* the one hash the gateway answers with (the service compares no hashes)
TxHash == "tx"
\* matches created in one run
MaxMatches == 1
\* reconcile_match calls and calls of the FSM functions that are followed
MaxReconciles == 1
MaxFsmChecks == 2
\* calls of the governance service in one run
MaxGovCalls == 3

\* the signer vectors initialize is called with (one holds a duplicate)
InitSignerLists ==
  { <<"s1">>, <<"s1", "s2">>, <<"s1", "s2", "s3">>, <<"s1", "s1">> }

VARIABLES
  initialized,     \* DataKey::Initialized
  signerInfo,      \* addresses with a DataKey::Signer entry (is_active is always true)
  signerList,      \* DataKey::SignerList
  signerCount,     \* DataKey::SignerCount
  threshold,       \* DataKey::Config .threshold
  proposals,       \* DataKey::Proposal(id), NoProposal when absent
  approvals,       \* DataKey::ProposalApprovals(id)
  executedGuard,   \* DataKey::ProposalExecuted(id)
  govTime,         \* env.ledger().timestamp()
  callStack,       \* proposals whose target invocation has not returned yet
  externalCalls    \* number of env.invoke_contract calls made for each proposal

govVars == << initialized, signerInfo, signerList, signerCount, threshold,
              proposals, approvals, executedGuard, govTime, callStack,
              externalCalls >>

VARIABLES
  slAdmin,          \* DataKey::Admin, "" before initialize
  identityContract, \* DataKey::IdentityContract, "" when unset
  escrowContract,   \* DataKey::EscrowContract, "" when unset
  cases,            \* DataKey::SlashCase(id), NoCase when absent
  caseExecuted,     \* DataKey::CaseExecuted(id) is present
  banned,           \* DataKey::BannedUsers(subject), NoBan when absent
  slTime,           \* env.ledger().timestamp() of the slashing contract
  penaltiesApplied  \* number of penalties dispatched for each case

slashVars == << slAdmin, identityContract, escrowContract, cases, caseExecuted,
                banned, slTime, penaltiesApplied >>

VARIABLES
  matches,          \* table match_authority, in insertion order; the id is the index
  transitions,      \* table match_transitions, in timestamp order
  chainSync,        \* table match_chain_sync
  chainCalls,       \* number of transactions the gateway submitted, for each
                    \* contract function and idempotency key of the request
  workers,          \* the service requests in progress, one per worker
  firstResp,        \* for each key, the response returned by the create_match
                    \* that inserted the row carrying it
  returnedIds,      \* the match ids create_match has returned to a caller
  dbTime            \* the database clock: what NOW() answers next

matchVars == << matches, transitions, chainSync, chainCalls, workers,
                firstResp, returnedIds, dbTime >>

VARIABLES
  reconLog,         \* table match_reconciliation_log, with the value each
                    \* reconcile_match call returned
  fsmChecks         \* what the FSM functions answered, for each pair of states
                    \* they were asked about

reconVars == << reconLog >>
fsmVars == << fsmChecks >>

VARIABLES
  govProposals,     \* table governance_proposals, by proposal_id
  govApprovals,     \* table governance_approvals: the signers, by proposal_id
  govChainSync,     \* table governance_chain_sync, in insertion order
  govNow            \* the database clock of the governance tables

govServiceVars == << govProposals, govApprovals, govChainSync, govNow >>

VARIABLES
  attempt,          \* monitor_transaction: let mut attempt
  delay,            \* monitor_transaction: let mut delay
  statusAnswers,    \* what get_transaction_status answered, in order
  sleeps,           \* the arguments of tokio::time::sleep, in order (ms)
  monitorResult,    \* what monitor_transaction returned, if it has
  invokeResult      \* what invoke returned, if it has

monitorVars == << attempt, delay, statusAnswers, sleeps, monitorResult,
                  invokeResult >>

vars == << govVars, slashVars, matchVars, reconVars, fsmVars, govServiceVars,
           monitorVars >>

nonGovVars == << slashVars, matchVars, reconVars, fsmVars, govServiceVars,
                 monitorVars >>
nonSlashVars == << govVars, matchVars, reconVars, fsmVars, govServiceVars,
                   monitorVars >>
nonMatchVars == << govVars, slashVars, reconVars, fsmVars, govServiceVars,
                   monitorVars >>
nonGovServiceVars == << govVars, slashVars, matchVars, reconVars, fsmVars,
                        monitorVars >>
nonMonitorVars == << govVars, slashVars, matchVars, reconVars, fsmVars,
                     govServiceVars >>

(***************************************************************************)
(* Governance multisig: types.rs, storage.rs                               *)
(***************************************************************************)
Pending == 0
Approved == 1
Executed == 2
Cancelled == 3

RECURSIVE SeqWithout(_, _)
\* the filter loop of revoke_approval and internal_remove_signer
SeqWithout(s, a) ==
  IF s = <<>> THEN <<>>
  ELSE IF Head(s) = a THEN SeqWithout(Tail(s), a)
       ELSE <<Head(s)>> \o SeqWithout(Tail(s), a)

SeqRange(s) == { s[i] : i \in 1..Len(s) }

is_active_signer(a) == a \in signerInfo

\* the value standing for "no entry under DataKey::Proposal(id)"
NoProposal ==
  [ exists |-> FALSE, target_contract |-> "", proposer |-> "", status |-> 0,
    approval_count |-> 0, created_at |-> 0, execute_after |-> None,
    executed_at |-> None, expiry |-> None ]

proposal_exists(p) == proposals[p].exists

is_proposal_executed(p) == executedGuard[p]

has_approved(p, a) == \E i \in 1..Len(approvals[p]) : approvals[p][i] = a

IsExpired_never(p) == FALSE

IsExpired(p) ==
  proposals[p].expiry /= None /\ govTime > proposals[p].expiry

(***************************************************************************)
(* initialize                                                              *)
(***************************************************************************)
initialize_result(signers, t) ==
  IF initialized THEN "AlreadyInitialized"
  ELSE IF signers = <<>> THEN "EmptySignerList"
  ELSE IF t = 0 THEN "InvalidThreshold"
  ELSE IF t > Len(signers) THEN "ThresholdExceedsSigners"
  ELSE "Ok"

initialize(signers, t) ==
  /\ callStack = <<>>
  /\ initialize_result(signers, t) = "Ok"
  /\ signerInfo' = SeqRange(signers)
  /\ signerList' = signers
  /\ signerCount' = Len(signers)
  /\ threshold' = t
  /\ initialized' = TRUE
  /\ UNCHANGED nonGovVars
  /\ UNCHANGED << proposals, approvals, executedGuard, govTime, callStack,
                  externalCalls >>

(***************************************************************************)
(* create_proposal                                                         *)
(***************************************************************************)
create_proposal_result_without_self_check(proposer, p, target) ==
  IF ~initialized THEN "NotInitialized"
  ELSE IF ~is_active_signer(proposer) THEN "NotASigner"
  ELSE IF proposal_exists(p) THEN "ProposalAlreadyExists"
  ELSE "Ok"

create_proposal_result(proposer, p, target) ==
  IF ~initialized THEN "NotInitialized"
  ELSE IF ~is_active_signer(proposer) THEN "NotASigner"
  ELSE IF proposal_exists(p) THEN "ProposalAlreadyExists"
  ELSE IF target = SelfAddress THEN "SelfCallNotAllowed"
  ELSE "Ok"

create_proposal(proposer, p, target, execute_after) ==
  /\ create_proposal_result(proposer, p, target) = "Ok"
  /\ proposals' = [proposals EXCEPT ![p] =
        [ exists |-> TRUE,
          target_contract |-> target,
          proposer |-> proposer,
          status |-> Pending,
          approval_count |-> 0,
          created_at |-> govTime,
          execute_after |-> execute_after,
          executed_at |-> None,
          expiry |-> govTime + proposal_ttl ]]
  /\ approvals' = [approvals EXCEPT ![p] = <<>>]
  /\ UNCHANGED nonGovVars
  /\ UNCHANGED << initialized, signerInfo, signerList, signerCount, threshold,
                  executedGuard, govTime, callStack, externalCalls >>

(***************************************************************************)
(* approve                                                                 *)
(***************************************************************************)
\* approve without the has_approved check
approve_result_no_duplicate_check(signer, p) ==
  IF ~initialized THEN "NotInitialized"
  ELSE IF ~is_active_signer(signer) THEN "NotASigner"
  ELSE IF is_proposal_executed(p) THEN "ProposalAlreadyExecuted"
  ELSE IF ~proposal_exists(p) THEN "ProposalNotFound"
  ELSE IF proposals[p].status = Executed THEN "ProposalAlreadyExecuted"
  ELSE IF proposals[p].status = Cancelled THEN "ProposalCancelled"
  ELSE IF IsExpired(p) THEN "ProposalExpired"
  ELSE "Ok"

approve_result(signer, p) ==
  IF ~initialized THEN "NotInitialized"
  ELSE IF ~is_active_signer(signer) THEN "NotASigner"
  ELSE IF is_proposal_executed(p) THEN "ProposalAlreadyExecuted"
  ELSE IF ~proposal_exists(p) THEN "ProposalNotFound"
  ELSE IF proposals[p].status = Executed THEN "ProposalAlreadyExecuted"
  ELSE IF proposals[p].status = Cancelled THEN "ProposalCancelled"
  ELSE IF IsExpired(p) THEN "ProposalExpired"
  ELSE IF has_approved(p, signer) THEN "AlreadyApproved"
  ELSE "Ok"

\* what approve stores: the approval list with the signer pushed at the
\* back, and the proposal with its count and status
approve_update(proposal, list, signer) ==
  LET count == proposal.approval_count + 1
  IN [ approvals |-> Append(list, signer),
       proposal |-> [ proposal EXCEPT
                        !.approval_count = count,
                        !.status = IF count >= threshold THEN Approved ELSE @ ] ]

approve(signer, p) ==
  /\ approve_result(signer, p) = "Ok"
  /\ approvals' = [approvals EXCEPT
       ![p] = approve_update(proposals[p], approvals[p], signer).approvals]
  /\ proposals' = [proposals EXCEPT
       ![p] = approve_update(proposals[p], approvals[p], signer).proposal]
  /\ UNCHANGED nonGovVars
  /\ UNCHANGED << initialized, signerInfo, signerList, signerCount, threshold,
                  executedGuard, govTime, callStack, externalCalls >>

(***************************************************************************)
(* revoke_approval                                                         *)
(***************************************************************************)
revoke_approval_result(signer, p) ==
  IF ~initialized THEN "NotInitialized"
  ELSE IF ~is_active_signer(signer) THEN "NotASigner"
  ELSE IF is_proposal_executed(p) THEN "ProposalAlreadyExecuted"
  ELSE IF ~proposal_exists(p) THEN "ProposalNotFound"
  ELSE IF proposals[p].status = Executed THEN "ProposalAlreadyExecuted"
  ELSE IF ~has_approved(p, signer) THEN "NotApproved"
  ELSE "Ok"

\* what revoke_approval stores: the approval list without the signer, and
\* the proposal with its count and status
revoke_approval_update(proposal, list, signer) ==
  LET count == proposal.approval_count - 1
  IN [ approvals |-> SeqWithout(list, signer),
       proposal |-> [ proposal EXCEPT
                        !.approval_count = count,
                        !.status = IF count < threshold THEN Pending ELSE @ ] ]

revoke_approval(signer, p) ==
  /\ revoke_approval_result(signer, p) = "Ok"
  /\ approvals' = [approvals EXCEPT
       ![p] = revoke_approval_update(proposals[p], approvals[p], signer).approvals]
  /\ proposals' = [proposals EXCEPT
       ![p] = revoke_approval_update(proposals[p], approvals[p], signer).proposal]
  /\ UNCHANGED nonGovVars
  /\ UNCHANGED << initialized, signerInfo, signerList, signerCount, threshold,
                  executedGuard, govTime, callStack, externalCalls >>

(***************************************************************************)
(* execute                                                                 *)
(***************************************************************************)
\* execute without the replay checks (guard and status)
execute_result_no_replay_check(executor, p) ==
  IF ~initialized THEN "NotInitialized"
  ELSE IF ~is_active_signer(executor) THEN "NotASigner"
  ELSE IF ~proposal_exists(p) THEN "ProposalNotFound"
  ELSE IF proposals[p].status = Cancelled THEN "ProposalCancelled"
  ELSE IF IsExpired(p) THEN "ProposalExpired"
  ELSE IF proposals[p].approval_count < threshold THEN "InsufficientApprovals"
  ELSE IF proposals[p].execute_after /= None
          /\ govTime < proposals[p].execute_after THEN "ExecutionTooEarly"
  ELSE "Ok"

execute_result(executor, p) ==
  IF ~initialized THEN "NotInitialized"
  ELSE IF ~is_active_signer(executor) THEN "NotASigner"
  ELSE IF is_proposal_executed(p) THEN "ProposalAlreadyExecuted"
  ELSE IF ~proposal_exists(p) THEN "ProposalNotFound"
  ELSE IF proposals[p].status = Executed THEN "ProposalAlreadyExecuted"
  ELSE IF proposals[p].status = Cancelled THEN "ProposalCancelled"
  ELSE IF IsExpired(p) THEN "ProposalExpired"
  ELSE IF proposals[p].approval_count < threshold THEN "InsufficientApprovals"
  ELSE IF proposals[p].execute_after /= None
          /\ govTime < proposals[p].execute_after THEN "ExecutionTooEarly"
  ELSE "Ok"

\* The checks and the effects of execute, up to and including the call of
\* env.invoke_contract: the guard and the status are written before the call,
\* and the target is on the call stack until target_returns.  While it is, the
\* target may call any governance function (the nested calls are the other
\* actions, taken while callStack is not empty).
execute(executor, p) ==
  /\ execute_result(executor, p) = "Ok"
  /\ executedGuard' = [executedGuard EXCEPT ![p] = TRUE]
  /\ proposals' = [proposals EXCEPT ![p].status = Executed,
                                    ![p].executed_at = govTime]
  /\ externalCalls' = [externalCalls EXCEPT ![p] = @ + 1]
  /\ callStack' = Append(callStack, p)
  /\ UNCHANGED nonGovVars
  /\ UNCHANGED << initialized, signerInfo, signerList, signerCount, threshold,
                  approvals, govTime >>

\* env.invoke_contract returns; execute publishes its event and returns Ok
target_returns ==
  /\ callStack /= <<>>
  /\ callStack' = SubSeq(callStack, 1, Len(callStack) - 1)
  /\ UNCHANGED nonGovVars
  /\ UNCHANGED << initialized, signerInfo, signerList, signerCount, threshold,
                  proposals, approvals, executedGuard, govTime, externalCalls >>

(***************************************************************************)
(* cancel_proposal                                                         *)
(***************************************************************************)
\* cancel_proposal without the executed checks
cancel_proposal_result_no_executed_check(caller, p) ==
  IF ~initialized THEN "NotInitialized"
  ELSE IF ~proposal_exists(p) THEN "ProposalNotFound"
  ELSE IF caller /= proposals[p].proposer THEN "Unauthorized"
  ELSE "Ok"

cancel_proposal_result(caller, p) ==
  IF ~initialized THEN "NotInitialized"
  ELSE IF is_proposal_executed(p) THEN "ProposalAlreadyExecuted"
  ELSE IF ~proposal_exists(p) THEN "ProposalNotFound"
  ELSE IF proposals[p].status = Executed THEN "ProposalAlreadyExecuted"
  ELSE IF caller /= proposals[p].proposer THEN "Unauthorized"
  ELSE "Ok"

cancel_proposal(caller, p) ==
  /\ cancel_proposal_result(caller, p) = "Ok"
  /\ proposals' = [proposals EXCEPT ![p].status = Cancelled]
  /\ UNCHANGED nonGovVars
  /\ UNCHANGED << initialized, signerInfo, signerList, signerCount, threshold,
                  approvals, executedGuard, govTime, callStack, externalCalls >>

(***************************************************************************)
(* internal_add_signer, internal_remove_signer, internal_update_threshold  *)
(* (public contract functions; the code checks no caller)                  *)
(***************************************************************************)
internal_add_signer_result(new_signer) ==
  IF ~initialized THEN "NotInitialized"
  ELSE IF new_signer \in signerInfo THEN "SignerAlreadyExists"
  ELSE IF signerCount >= max_signers THEN "MaxSignersReached"
  ELSE "Ok"

internal_add_signer(new_signer) ==
  /\ internal_add_signer_result(new_signer) = "Ok"
  /\ signerInfo' = signerInfo \cup {new_signer}
  /\ signerList' = Append(signerList, new_signer)
  /\ signerCount' = signerCount + 1
  /\ UNCHANGED nonGovVars
  /\ UNCHANGED << initialized, threshold, proposals, approvals, executedGuard,
                  govTime, callStack, externalCalls >>

internal_remove_signer_result(signer) ==
  IF ~initialized THEN "NotInitialized"
  ELSE IF signer \notin signerInfo THEN "SignerNotFound"
  ELSE IF signerCount <= 1 THEN "CannotRemoveLastSigner"
  ELSE IF threshold > signerCount - 1 THEN "ThresholdExceedsSigners"
  ELSE "Ok"

internal_remove_signer(signer) ==
  /\ internal_remove_signer_result(signer) = "Ok"
  /\ signerInfo' = signerInfo \ {signer}
  /\ signerList' = SeqWithout(signerList, signer)
  /\ signerCount' = signerCount - 1
  /\ UNCHANGED nonGovVars
  /\ UNCHANGED << initialized, threshold, proposals, approvals, executedGuard,
                  govTime, callStack, externalCalls >>

internal_update_threshold_result(new_threshold) ==
  IF ~initialized THEN "NotInitialized"
  ELSE IF new_threshold = 0 THEN "InvalidThreshold"
  ELSE IF new_threshold > signerCount THEN "ThresholdExceedsSigners"
  ELSE "Ok"

internal_update_threshold(new_threshold) ==
  /\ internal_update_threshold_result(new_threshold) = "Ok"
  /\ threshold' = new_threshold
  /\ UNCHANGED nonGovVars
  /\ UNCHANGED << initialized, signerInfo, signerList, signerCount, proposals,
                  approvals, executedGuard, govTime, callStack, externalCalls >>

(***************************************************************************)
(* The ledger closes: time moves on between transactions only              *)
(***************************************************************************)
gov_ledger_advance(t) ==
  /\ callStack = <<>>
  /\ t > govTime
  /\ govTime' = t
  /\ UNCHANGED nonGovVars
  /\ UNCHANGED << initialized, signerInfo, signerList, signerCount, threshold,
                  proposals, approvals, executedGuard, callStack, externalCalls >>

GovInit ==
  /\ initialized = FALSE
  /\ signerInfo = {}
  /\ signerList = <<>>
  /\ signerCount = 0
  /\ threshold = 0
  /\ proposals = [p \in PIds |-> NoProposal]
  /\ approvals = [p \in PIds |-> <<>>]
  /\ executedGuard = [p \in PIds |-> FALSE]
  /\ govTime = 0
  /\ callStack = <<>>
  /\ externalCalls = [p \in PIds |-> 0]

GovNext ==
  \/ \E signers \in InitSignerLists, t \in 0..3 : initialize(signers, t)
  \/ \E a \in Addresses, p \in PIds, target \in Targets,
        ea \in {None} \cup 1..MaxDelay : create_proposal(a, p, target, ea)
  \/ \E a \in Addresses, p \in PIds : approve(a, p)
  \/ \E a \in Addresses, p \in PIds : revoke_approval(a, p)
  \/ \E a \in Addresses, p \in PIds : execute(a, p)
  \/ target_returns
  \/ \E a \in Addresses, p \in PIds : cancel_proposal(a, p)
  \/ \E a \in Addresses : internal_add_signer(a)
  \/ \E a \in Addresses : internal_remove_signer(a)
  \/ \E t \in 0..3 : internal_update_threshold(t)
  \/ \E t \in LedgerTimes : gov_ledger_advance(t)


(***************************************************************************)
(* Slashing contract: slashing_contract/src/lib.rs                         *)
(* An Option argument is the empty set (None) or a singleton (Some).       *)
(***************************************************************************)
Proposed == 0
SlashApproved == 1
SlashExecuted == 2
SlashCancelled == 3

StakeSlash == 0
RewardConfiscation == 1
TemporarySuspension == 2
PermanentBan == 3

Some(x) == {x}
Unwrap(o) == CHOOSE x \in o : TRUE

\* the value standing for "no entry under DataKey::SlashCase(id)"
NoCase ==
  [ exists |-> FALSE, subject |-> "", initiator |-> "", status |-> 0,
    created_at |-> 0, resolved_at |-> None ]

\* the value standing for "no entry under DataKey::BannedUsers(subject)"
NoBan ==
  [ exists |-> FALSE, case_id |-> "", banned_at |-> 0, is_permanent |-> FALSE,
    expires_at |-> None ]

is_permanently_banned(subject) ==
  banned[subject].exists /\ banned[subject].is_permanent

is_banned_until_expiry_included(subject) ==
  IF banned[subject].exists
  THEN IF banned[subject].is_permanent THEN TRUE
       ELSE IF banned[subject].expires_at /= None
            THEN slTime <= banned[subject].expires_at
            ELSE FALSE
  ELSE FALSE

is_banned(subject) ==
  IF banned[subject].exists
  THEN IF banned[subject].is_permanent THEN TRUE
       ELSE IF banned[subject].expires_at /= None
            THEN slTime < banned[subject].expires_at
            ELSE FALSE
  ELSE FALSE

is_case_executed(c) == caseExecuted[c]

\* get_caller returns the stored admin, and require_authority accepts the
\* admin once the admin has authorised the call: every call below is one the
\* admin authorised.
get_caller == slAdmin

sl_initialize(admin) ==
  /\ slAdmin = ""
  /\ slAdmin' = admin
  /\ UNCHANGED nonSlashVars
  /\ UNCHANGED << identityContract, escrowContract, cases, caseExecuted,
                  banned, slTime, penaltiesApplied >>

set_identity_contract(addr) ==
  /\ slAdmin /= ""
  /\ identityContract' = addr
  /\ UNCHANGED nonSlashVars
  /\ UNCHANGED << slAdmin, escrowContract, cases, caseExecuted, banned,
                  slTime, penaltiesApplied >>

set_escrow_contract(addr) ==
  /\ slAdmin /= ""
  /\ escrowContract' = addr
  /\ UNCHANGED nonSlashVars
  /\ UNCHANGED << slAdmin, identityContract, cases, caseExecuted, banned,
                  slTime, penaltiesApplied >>

open_case_result_without_ban_check(c, subject) ==
  IF slAdmin = "" THEN "not initialized"
  ELSE IF cases[c].exists THEN "case already exists"
  ELSE "Ok"

open_case_result(c, subject) ==
  IF slAdmin = "" THEN "not initialized"
  ELSE IF cases[c].exists THEN "case already exists"
  ELSE IF is_permanently_banned(subject) THEN "subject already permanently banned"
  ELSE "Ok"

open_case(c, subject) ==
  /\ open_case_result(c, subject) = "Ok"
  /\ cases' = [cases EXCEPT ![c] =
        [ exists |-> TRUE, subject |-> subject, initiator |-> get_caller,
          status |-> Proposed, created_at |-> slTime, resolved_at |-> None ]]
  /\ UNCHANGED nonSlashVars
  /\ UNCHANGED << slAdmin, identityContract, escrowContract, caseExecuted,
                  banned, slTime, penaltiesApplied >>

approve_case_result(c) ==
  IF slAdmin = "" THEN "not initialized"
  ELSE IF ~cases[c].exists THEN "case not found"
  ELSE IF cases[c].status /= Proposed THEN "invalid case status"
  ELSE "Ok"

approve_case(c) ==
  /\ approve_case_result(c) = "Ok"
  /\ cases' = [cases EXCEPT ![c].status = SlashApproved]
  /\ UNCHANGED nonSlashVars
  /\ UNCHANGED << slAdmin, identityContract, escrowContract, caseExecuted,
                  banned, slTime, penaltiesApplied >>

\* execute_stake_slash and execute_reward_confiscation up to the escrow call
financial_penalty_result(amount, asset, what) ==
  IF amount = {} THEN "amount required for " \o what
  ELSE IF asset = {} THEN "asset required for " \o what
  ELSE IF Unwrap(amount) <= 0 THEN "amount must be positive"
  ELSE IF escrowContract = "" THEN "escrow contract not set"
  ELSE "Ok"

execute_penalty_result(c, penalty_type, amount, asset, duration) ==
  IF slAdmin = "" THEN "not initialized"
  ELSE IF caseExecuted[c] THEN "case already executed"
  ELSE IF ~cases[c].exists THEN "case not found"
  ELSE IF cases[c].status /= SlashApproved THEN "case not approved"
  ELSE IF penalty_type > 3 THEN "invalid penalty type"
  ELSE IF penalty_type = StakeSlash
    THEN financial_penalty_result(amount, asset, "stake slash")
  ELSE IF penalty_type = RewardConfiscation
    THEN financial_penalty_result(amount, asset, "reward confiscation")
  ELSE IF penalty_type = TemporarySuspension
    THEN IF duration = {} THEN "duration required for temporary suspension"
         ELSE IF Unwrap(duration) = 0 THEN "duration must be positive"
         ELSE "Ok"
  ELSE "Ok"

\* the BanRecord execute_temporary_suspension writes
execute_temporary_suspension(subject, duration, c) ==
  [banned EXCEPT ![subject] =
     [ exists |-> TRUE, case_id |-> c, banned_at |-> slTime,
       is_permanent |-> FALSE, expires_at |-> slTime + Unwrap(duration) ]]

\* the BanRecord execute_permanent_ban writes
execute_permanent_ban(subject, c) ==
  [banned EXCEPT ![subject] =
     [ exists |-> TRUE, case_id |-> c, banned_at |-> slTime,
       is_permanent |-> TRUE, expires_at |-> None ]]

\* execute_penalty returning before it stores the Executed status and the
\* CaseExecuted guard
execute_penalty_without_marking(c, penalty_type, amount, asset, duration) ==
  /\ execute_penalty_result(c, penalty_type, amount, asset, duration) = "Ok"
  /\ banned' =
       IF penalty_type = TemporarySuspension
         THEN execute_temporary_suspension(cases[c].subject, duration, c)
       ELSE IF penalty_type = PermanentBan
         THEN execute_permanent_ban(cases[c].subject, c)
       ELSE banned
  /\ penaltiesApplied' = [penaltiesApplied EXCEPT ![c] = @ + 1]
  /\ UNCHANGED nonSlashVars
  /\ UNCHANGED << slAdmin, identityContract, escrowContract, slTime, cases,
                  caseExecuted >>

\* The escrow calls of the financial penalties move funds in the escrow
\* contract, which keeps no state here; an escrow call that traps reverts the
\* whole transaction.
execute_penalty(c, penalty_type, amount, asset, duration) ==
  /\ execute_penalty_result(c, penalty_type, amount, asset, duration) = "Ok"
  /\ banned' =
       IF penalty_type = TemporarySuspension
         THEN execute_temporary_suspension(cases[c].subject, duration, c)
       ELSE IF penalty_type = PermanentBan
         THEN execute_permanent_ban(cases[c].subject, c)
       ELSE banned
  /\ penaltiesApplied' = [penaltiesApplied EXCEPT ![c] = @ + 1]
  /\ cases' = [cases EXCEPT ![c].status = SlashExecuted,
                            ![c].resolved_at = slTime]
  /\ caseExecuted' = [caseExecuted EXCEPT ![c] = TRUE]
  /\ UNCHANGED nonSlashVars
  /\ UNCHANGED << slAdmin, identityContract, escrowContract, slTime >>

cancel_case_result_any_status(c) ==
  IF slAdmin = "" THEN "not initialized"
  ELSE IF ~cases[c].exists THEN "case not found"
  ELSE "Ok"

cancel_case_result(c) ==
  IF slAdmin = "" THEN "not initialized"
  ELSE IF ~cases[c].exists THEN "case not found"
  ELSE IF cases[c].status /= Proposed THEN "can only cancel proposed cases"
  ELSE "Ok"

cancel_case(c) ==
  /\ cancel_case_result(c) = "Ok"
  /\ cases' = [cases EXCEPT ![c].status = SlashCancelled,
                            ![c].resolved_at = slTime]
  /\ UNCHANGED nonSlashVars
  /\ UNCHANGED << slAdmin, identityContract, escrowContract, caseExecuted,
                  banned, slTime, penaltiesApplied >>

slash_ledger_advance ==
  /\ slTime < MaxSlashTime
  /\ slTime' = slTime + 1
  /\ UNCHANGED nonSlashVars
  /\ UNCHANGED << slAdmin, identityContract, escrowContract, cases,
                  caseExecuted, banned, penaltiesApplied >>

SlashInit ==
  /\ slAdmin = ""
  /\ identityContract = ""
  /\ escrowContract = ""
  /\ cases = [c \in CaseIds |-> NoCase]
  /\ caseExecuted = [c \in CaseIds |-> FALSE]
  /\ banned = [u \in Subjects |-> NoBan]
  /\ slTime = 0
  /\ penaltiesApplied = [c \in CaseIds |-> 0]

PenaltyTypes == 0..4
Amounts == {{}, Some(0), Some(1)}
Assets == {{}, Some("asset")}
Durations == {{}, Some(0)} \cup { Some(d) : d \in 1..MaxDuration }

SlashNext ==
  \/ sl_initialize(AdminAddress)
  \/ set_identity_contract("identity")
  \/ set_escrow_contract("escrow")
  \/ \E c \in CaseIds, u \in Subjects : open_case(c, u)
  \/ \E c \in CaseIds : approve_case(c)
  \/ \E c \in CaseIds, pt \in PenaltyTypes, am \in Amounts, as \in Assets,
        du \in Durations : execute_penalty(c, pt, am, as, du)
  \/ \E c \in CaseIds : cancel_case(c)
  \/ slash_ledger_advance

(***************************************************************************)
(* Match authority: models/match_authority.rs, match_authority_service.rs  *)
(*                                                                         *)
(* A request is a worker going through the awaits of its service function: *)
(* begin (the first SELECT and the synchronous checks after it), chain     *)
(* (SorobanService::invoke), insert or update, log (record_chain_sync and  *)
(* record_transition), respond (get_match_with_transitions).               *)
(* The service opens no transaction and takes no lock, so the steps of two *)
(* requests interleave freely.  A request rejected at begin returns an     *)
(* error and writes nothing; it is described by its xxx_check operator.    *)
(***************************************************************************)
Created == "Created"
Started == "Started"
Completed == "Completed"
Disputed == "Disputed"
Finalized == "Finalized"
MatchStates == {Created, Started, Completed, Disputed, Finalized}

can_transition_to_without_same_state(from, to) ==
  \/ from = Created /\ to = Started
  \/ from = Started /\ to = Completed
  \/ from = Completed /\ to = Disputed
  \/ from = Completed /\ to = Finalized
  \/ from = Disputed /\ to = Finalized

can_transition_to(from, to) ==
  \/ from = Created /\ to = Started
  \/ from = Started /\ to = Completed
  \/ from = Completed /\ to = Disputed
  \/ from = Completed /\ to = Finalized
  \/ from = Disputed /\ to = Finalized
  \/ from = to

\* the Vec valid_next_states returns
valid_next_states(st) ==
  CASE st = Created -> <<Started>>
    [] st = Started -> <<Completed>>
    [] st = Completed -> <<Disputed, Finalized>>
    [] st = Disputed -> <<Finalized>>
    [] st = Finalized -> <<>>

is_terminal(st) == st = Finalized

validate_transition_accepts_all(from, to) == "Ok"

validate_transition(from, to) ==
  IF ~can_transition_to(from, to) THEN "bad_request" ELSE "Ok"

\* length of the player strings; #[validate(length(min = 56, max = 56))]
StringLength == [ s \in PlayerStrings |-> IF s = "short" THEN 7 ELSE 56 ]
ValidLength(s) == StringLength[s] >= 56 /\ StringLength[s] <= 56

MatchIds == 1..Len(matches)

NoResp == [ ok |-> FALSE, id |-> 0, state |-> "", winner |-> "",
            transitions |-> <<>> ]

IdleWorker ==
  [ pc |-> "idle", op |-> "", match_id |-> 0, from |-> "", player_a |-> "",
    player_b |-> "", arg |-> "", key |-> NoKey, hash |-> "",
    tx_status |-> "", dedup |-> FALSE, after_completed |-> FALSE ]

\* the state each operation moves the match to
TargetState(op) ==
  CASE op = "create_match" -> Created
    [] op = "start_match" -> Started
    [] op = "complete_match" -> Completed
    [] op = "raise_dispute" -> Disputed
    [] op = "finalize_match" -> Finalized

RECURSIVE TransitionsOf(_, _)
\* SELECT ... FROM match_transitions WHERE match_id = $1 ORDER BY timestamp
TransitionsOf(rows, m) ==
  IF rows = <<>> THEN <<>>
  ELSE IF Head(rows).match_id = m
       THEN <<Head(rows)>> \o TransitionsOf(Tail(rows), m)
       ELSE TransitionsOf(Tail(rows), m)

\* get_match_by_idempotency_key: the ids of the rows carrying the key
get_match_by_idempotency_key(key) ==
  { m \in MatchIds : matches[m].idempotency_key = key }

\* the unique index on match_authority.idempotency_key admits a row with key
idempotency_key_free(key) ==
  key = NoKey \/ \A m \in MatchIds : matches[m].idempotency_key /= key

get_match_with_transitions(m) ==
  [ ok |-> TRUE, id |-> m, state |-> matches[m].state,
    winner |-> matches[m].winner,
    transitions |-> TransitionsOf(transitions, m) ]

AllOps == {"create_match", "start_match", "complete_match", "raise_dispute",
           "finalize_match"}

RECURSIVE SumOver(_, _)
SumOver(f, dom) ==
  IF dom = {} THEN 0
  ELSE LET x == CHOOSE x \in dom : TRUE IN f[x] + SumOver(f, dom \ {x})

TotalChainCalls == SumOver(chainCalls, DOMAIN chainCalls)

\* A request is taken by the first idle worker (requests carry no identity),
\* as long as the chain calls made and still to be made stay within
\* MaxChainCalls.
CanBegin(w) ==
  /\ workers[w].pc = "idle"
  /\ \A v \in Workers : v < w => workers[v].pc /= "idle"
  /\ TotalChainCalls
       + Cardinality({ v \in Workers : workers[v].pc = "chain" }) < MaxChainCalls

\* the rows the create_match requests in progress (ws) can still insert: one
\* for each request without a key and one for each key not yet stored
InFlightCreates(ws) ==
  { v \in Workers : ws[v].op = "create_match" /\ ws[v].pc \in {"chain", "insert"} }

PendingRows(ws) ==
  Cardinality({ v \in InFlightCreates(ws) : ws[v].key = NoKey })
  + Cardinality({ k \in Keys :
       /\ idempotency_key_free(k)
       /\ \E v \in InFlightCreates(ws) : ws[v].key = k })

\* ---- begin: the checks before the chain call -----------------------------
create_match_check(a, b) ==
  IF ~ValidLength(a) \/ ~ValidLength(b) THEN "bad_request" ELSE "Ok"

create_match_begin(w, a, b, key) ==
  /\ CanBegin(w)
  /\ create_match_check(a, b) = "Ok"
  /\ LET found == IF key /= NoKey THEN get_match_by_idempotency_key(key) ELSE {}
         base == [ IdleWorker EXCEPT !.op = "create_match", !.player_a = a,
                     !.player_b = b, !.key = key, !.from = Created,
                     !.after_completed = (key /= NoKey /\ firstResp[key].ok) ]
     IN workers' = [workers EXCEPT ![w] =
          IF found /= {}
          THEN [ base EXCEPT !.pc = "respond", !.dedup = TRUE,
                   !.match_id = CHOOSE m \in found : TRUE ]
          ELSE [ base EXCEPT !.pc = "chain" ]]
  /\ Len(matches) + PendingRows(workers') <= MaxMatches
  /\ UNCHANGED nonMatchVars
  /\ UNCHANGED << matches, transitions, chainSync, chainCalls, firstResp,
                  returnedIds, dbTime >>

\* complete_match takes the winner and raise_dispute the actor; start_match
\* and finalize_match take the match id only
ArgsOf(op) ==
  IF op \in {"complete_match", "raise_dispute"} THEN PlayerStrings ELSE {""}

\* transition_check without the check of the winner
transition_check_without_winner_check(op, m, arg) ==
  IF op = "complete_match" /\ ~ValidLength(arg) THEN "bad_request"
  ELSE IF m \notin MatchIds THEN "not_found"
  ELSE IF validate_transition(matches[m].state, TargetState(op)) /= "Ok"
    THEN "bad_request"
  ELSE IF op = "raise_dispute"
          /\ arg /= matches[m].player_a /\ arg /= matches[m].player_b
    THEN "forbidden"
  ELSE "Ok"

\* transition_check without the check of the actor
transition_check_without_actor_check(op, m, arg) ==
  IF op = "complete_match" /\ ~ValidLength(arg) THEN "bad_request"
  ELSE IF m \notin MatchIds THEN "not_found"
  ELSE IF validate_transition(matches[m].state, TargetState(op)) /= "Ok"
    THEN "bad_request"
  ELSE IF op = "complete_match"
          /\ arg /= matches[m].player_a /\ arg /= matches[m].player_b
    THEN "bad_request"
  ELSE "Ok"

\* start_match, complete_match, raise_dispute, finalize_match on match m
\* with the winner or the actor as arg
transition_check(op, m, arg) ==
  IF op = "complete_match" /\ ~ValidLength(arg) THEN "bad_request"
  ELSE IF m \notin MatchIds THEN "not_found"
  ELSE IF validate_transition(matches[m].state, TargetState(op)) /= "Ok"
    THEN "bad_request"
  ELSE IF op = "complete_match"
          /\ arg /= matches[m].player_a /\ arg /= matches[m].player_b
    THEN "bad_request"
  ELSE IF op = "raise_dispute"
          /\ arg /= matches[m].player_a /\ arg /= matches[m].player_b
    THEN "forbidden"
  ELSE "Ok"

\* The match ids are random UUIDs: a caller names a match only after a
\* create_match response has carried its id.
transition_begin(w, op, m, arg) ==
  /\ CanBegin(w)
  /\ arg \in ArgsOf(op)
  /\ m \in returnedIds
  /\ transition_check(op, m, arg) = "Ok"
  /\ workers' = [workers EXCEPT ![w] =
       [ IdleWorker EXCEPT !.pc = "chain", !.op = op, !.match_id = m,
           !.from = matches[m].state, !.arg = arg ]]
  /\ UNCHANGED nonMatchVars
  /\ UNCHANGED << matches, transitions, chainSync, chainCalls, firstResp,
                  returnedIds, dbTime >>

\* ---- chain: SorobanService::invoke ---------------------------------------
TxStatuses == {"success", "failed", "pending"}

\* invoke returns Ok with a fresh hash and the status monitoring ended with
\* (chain_result.status); the service reads only the hash, so the status is
\* kept up to the insert or update that follows and dropped after it
chain_invoke_ok(w, status) ==
  /\ workers[w].pc = "chain"
  /\ status \in TxStatuses
  /\ LET h == TxHash
     IN /\ chainCalls' = [chainCalls EXCEPT ![<<workers[w].op, workers[w].key>>] = @ + 1]
        /\ workers' = [workers EXCEPT
             ![w].pc = IF workers[w].op = "create_match" THEN "insert" ELSE "update",
             ![w].hash = h,
             ![w].tx_status = status]
  /\ UNCHANGED nonMatchVars
  /\ UNCHANGED << matches, transitions, chainSync, firstResp, returnedIds,
                  dbTime >>

\* invoke returns Err (simulation, signing or submission failed): the
\* request ends with internal_error
chain_invoke_err(w) ==
  /\ workers[w].pc = "chain"
  /\ workers' = [workers EXCEPT ![w] = IdleWorker]
  /\ UNCHANGED nonMatchVars
  /\ UNCHANGED << matches, transitions, chainSync, chainCalls, firstResp,
                  returnedIds, dbTime >>

\* ---- insert / update -----------------------------------------------------
\* NOW(): the time of the statement.  The clock moves on between two
\* statements.
NOW == dbTime
\* a timestamp column that is NULL
NoTime == 0

\* INSERT INTO match_authority; the unique index on idempotency_key rejects a
\* second row with the same key (database_error).  created_at is not in the
\* column list: the table fills it (it is returned NOT NULL), taken here as
\* the time of the INSERT.
insert_match(w) ==
  /\ workers[w].pc = "insert"
  /\ LET me == workers[w]
         clash == ~idempotency_key_free(me.key)
     IN IF clash
        THEN /\ workers' = [workers EXCEPT ![w] = IdleWorker]
             /\ UNCHANGED << matches, dbTime >>
        ELSE /\ matches' = Append(matches,
                  [ on_chain_match_id |-> me.hash, player_a |-> me.player_a,
                    player_b |-> me.player_b, winner |-> "", state |-> Created,
                    last_chain_tx |-> me.hash, idempotency_key |-> me.key,
                    created_at |-> NOW, started_at |-> NoTime,
                    ended_at |-> NoTime ])
             /\ dbTime' = NOW + 1
             /\ workers' = [workers EXCEPT ![w].pc = "log",
                                           ![w].tx_status = "",
                                           ![w].match_id = Len(matches) + 1]
  /\ UNCHANGED nonMatchVars
  /\ UNCHANGED << transitions, chainSync, chainCalls, firstResp, returnedIds >>

\* UPDATE match_authority SET state = ..., last_chain_tx = ... WHERE id = $n;
\* start_match also sets started_at = NOW(), complete_match winner and
\* ended_at = NOW()
update_match(w) ==
  /\ workers[w].pc = "update"
  /\ LET me == workers[w]
     IN matches' = [matches EXCEPT
          ![me.match_id].state = TargetState(me.op),
          ![me.match_id].last_chain_tx = me.hash,
          ![me.match_id].winner =
             IF me.op = "complete_match" THEN me.arg ELSE @,
          ![me.match_id].started_at =
             IF me.op = "start_match" THEN NOW ELSE @,
          ![me.match_id].ended_at =
             IF me.op = "complete_match" THEN NOW ELSE @]
  /\ dbTime' = NOW + 1
  /\ workers' = [workers EXCEPT ![w].pc = "log", ![w].tx_status = ""]
  /\ UNCHANGED nonMatchVars
  /\ UNCHANGED << transitions, chainSync, chainCalls, firstResp, returnedIds >>

\* ---- record_chain_sync, record_transition --------------------------------
\* the row record_chain_sync inserts
ChainSyncRow(me) ==
  [ match_id |-> me.match_id, operation_type |-> me.op,
    tx_hash |-> me.hash, tx_status |-> "pending" ]

\* the actor each operation records
ActorOf(me) ==
  CASE me.op = "create_match" -> me.player_a
    [] me.op \in {"start_match", "finalize_match"} -> "system"
    [] OTHER -> me.arg

\* the row record_transition inserts: from_state is the state the request
\* read at its begin
TransitionRow(me) ==
  [ match_id |-> me.match_id, from_state |-> me.from,
    to_state |-> TargetState(me.op), actor |-> ActorOf(me),
    chain_tx |-> me.hash ]

\* the step without record_chain_sync
record_transition_only(w) ==
  /\ workers[w].pc = "log"
  /\ transitions' = Append(transitions, TransitionRow(workers[w]))
  /\ workers' = [workers EXCEPT ![w] =
       IF workers[w].op = "create_match"
       THEN [ workers[w] EXCEPT !.pc = "respond" ]
       ELSE IdleWorker]
  /\ UNCHANGED nonMatchVars
  /\ UNCHANGED << matches, chainSync, chainCalls, firstResp, returnedIds,
                  dbTime >>

\* record_chain_sync, then record_transition.  No request reads
\* match_chain_sync, so the two inserts are taken as one step.  A request
\* other than create_match returns after it: what it returns is read by no
\* one here.
record_sync_and_transition(w) ==
  /\ workers[w].pc = "log"
  /\ chainSync' = Append(chainSync, ChainSyncRow(workers[w]))
  /\ transitions' = Append(transitions, TransitionRow(workers[w]))
  /\ workers' = [workers EXCEPT ![w] =
       IF workers[w].op = "create_match"
       THEN [ workers[w] EXCEPT !.pc = "respond" ]
       ELSE IdleWorker]
  /\ UNCHANGED nonMatchVars
  /\ UNCHANGED << matches, chainCalls, firstResp, returnedIds, dbTime >>

\* ---- respond: get_match_with_transitions ---------------------------------
\* The request returns get_match_with_transitions(match_id) as read in this
\* step.
respond(w) ==
  /\ workers[w].pc = "respond"
  /\ LET me == workers[w]
         r == get_match_with_transitions(me.match_id)
     IN /\ workers' = [workers EXCEPT ![w] = IdleWorker]
        /\ firstResp' =
             IF me.op = "create_match" /\ me.key /= NoKey /\ ~me.dedup
             THEN [firstResp EXCEPT ![me.key] = r]
             ELSE firstResp
        /\ returnedIds' = returnedIds \cup {me.match_id}
  /\ UNCHANGED nonMatchVars
  /\ UNCHANGED << matches, transitions, chainSync, chainCalls, dbTime >>

MatchInit ==
  /\ matches = <<>>
  /\ transitions = <<>>
  /\ chainSync = <<>>
  /\ chainCalls = [c \in AllOps \X (Keys \cup {NoKey}) |-> 0]
  /\ workers = [w \in Workers |-> IdleWorker]
  /\ firstResp = [k \in Keys |-> NoResp]
  /\ returnedIds = {}
  /\ dbTime = 1

TransitionOps == {"start_match", "complete_match", "raise_dispute", "finalize_match"}
MatchNext ==
  \/ \E w \in Workers, ab \in CreateInputs, k \in Keys \cup {NoKey} :
        create_match_begin(w, ab[1], ab[2], k)
  \/ \E w \in Workers, op \in TransitionOps, m \in 1..MaxMatches,
        arg \in PlayerStrings \cup {""} :
        transition_begin(w, op, m, arg)
  \/ \E w \in Workers, st \in TxStatuses : chain_invoke_ok(w, st)
  \/ \E w \in Workers : chain_invoke_err(w)
  \/ \E w \in Workers : insert_match(w)
  \/ \E w \in Workers : update_match(w)
  \/ \E w \in Workers : record_sync_and_transition(w)
  \/ \E w \in Workers : respond(w)

\* ---- reconcile_match ------------------------------------------------------
\* format!("{:?}", state): the derived Debug prints the name of the variant
DebugFormat(st) ==
  CASE st = Created -> "Created"
    [] st = Started -> "Started"
    [] st = Completed -> "Completed"
    [] st = Disputed -> "Disputed"
    [] st = Finalized -> "Finalized"

\* rename_all = "SCREAMING_SNAKE_CASE": the name of a state in the database
\* and in the API
ScreamingSnakeCase(st) ==
  CASE st = Created -> "CREATED"
    [] st = Started -> "STARTED"
    [] st = Completed -> "COMPLETED"
    [] st = Disputed -> "DISPUTED"
    [] st = Finalized -> "FINALIZED"

\* a placeholder: Ok("CREATED") for every match
get_match_state_from_chain(on_chain_match_id) == "CREATED"

\* One SELECT of the match row, the chain query, one INSERT into
\* match_reconciliation_log, which no request reads: taken as one step.
\* The call returns Ok(!is_divergent).
reconcile_match(m) ==
  /\ m \in returnedIds
  /\ Len(reconLog) < MaxReconciles
  /\ LET match_entity == matches[m]
         on_chain_state == get_match_state_from_chain(match_entity.on_chain_match_id)
         off_chain_state_str == DebugFormat(match_entity.state)
         is_divergent == on_chain_state /= off_chain_state_str
     IN reconLog' = Append(reconLog,
          [ match_id |-> m, off_chain_state |-> match_entity.state,
            on_chain_state |-> on_chain_state, is_divergent |-> is_divergent,
            returned |-> ~is_divergent ])
  /\ UNCHANGED << govVars, slashVars, matchVars, fsmVars, govServiceVars,
                  monitorVars >>

ReconcileInit == reconLog = <<>>

ReconcileNext ==
  \/ MatchNext
  \/ \E m \in 1..MaxMatches : reconcile_match(m)

\* ---- the FSM functions on their own ---------------------------------------
\* what can_transition_to, validate_transition, valid_next_states and
\* is_terminal answer for the states from and to
check_transition(from, to) ==
  /\ Len(fsmChecks) < MaxFsmChecks
  /\ fsmChecks' = Append(fsmChecks,
       [ from |-> from, to |-> to,
         can_transition_to |-> can_transition_to(from, to),
         validate_transition |-> validate_transition(from, to),
         valid_next_states |-> valid_next_states(from),
         is_terminal |-> is_terminal(from) ])
  /\ UNCHANGED << govVars, slashVars, matchVars, reconVars, govServiceVars,
                  monitorVars >>

FsmInit == fsmChecks = <<>>

FsmNext == \E from \in MatchStates, to \in MatchStates : check_transition(from, to)

(***************************************************************************)
(* Governance service: backend/src/service/governance_service.rs           *)
(***************************************************************************)
\* ProposalStatus, as its Display writes it into the status column
StatusPending == "PENDING"
StatusApproved == "APPROVED"
StatusExecuted == "EXECUTED"
StatusCancelled == "CANCELLED"
StatusFailed == "FAILED"

NoProposalRow ==
  [ exists |-> FALSE, status |-> "", proposer |-> "", executed_at |-> NoTime,
    last_chain_tx |-> "" ]

\* record_chain_sync: the row it inserts
GovChainSyncRow(proposal_id, operation, status) ==
  [ proposal_id |-> proposal_id, operation |-> operation, tx_hash |-> TxHash,
    tx_status |-> CASE status = "success" -> "SUCCESS"
                    [] status = "failed" -> "FAILED"
                    [] status = "pending" -> "PENDING" ]

\* Each call below is taken for an invoke that returned Ok(tx_result) with
\* tx_result.status = status; when invoke returns Err the call returns
\* SorobanError and writes nothing.  A call runs up to MaxGovCalls times.
GovCallAllowed(status) ==
  /\ status \in TxStatuses
  /\ Len(govChainSync) < MaxGovCalls

\* the proposal id is a fresh UUID: no row carries it yet
gs_create_proposal(p, signer_address, status) ==
  /\ GovCallAllowed(status)
  /\ ~govProposals[p].exists
  /\ govProposals' = [govProposals EXCEPT ![p] =
       [ exists |-> TRUE, status |-> StatusPending, proposer |-> signer_address,
         executed_at |-> NoTime, last_chain_tx |-> TxHash ]]
  /\ govChainSync' = Append(govChainSync, GovChainSyncRow(p, "CREATE", status))
  /\ govNow' = govNow + 1
  /\ UNCHANGED govApprovals
  /\ UNCHANGED nonGovServiceVars

approve_proposal_result(p) ==
  IF ~govProposals[p].exists THEN "ProposalNotFound" ELSE "Ok"

approve_proposal(p, signer_address, status) ==
  /\ GovCallAllowed(status)
  /\ approve_proposal_result(p) = "Ok"
  /\ IF status = "success"
     THEN /\ govApprovals' = [govApprovals EXCEPT ![p] = @ \cup {signer_address}]
          /\ govProposals' = [govProposals EXCEPT ![p].last_chain_tx = TxHash]
     ELSE UNCHANGED << govApprovals, govProposals >>
  /\ govChainSync' = Append(govChainSync, GovChainSyncRow(p, "APPROVE", status))
  /\ govNow' = govNow + 1
  /\ UNCHANGED nonGovServiceVars

\* the status execute_proposal writes for each transaction status
execute_new_status(status) ==
  CASE status = "success" -> StatusExecuted
    [] status = "failed" -> StatusFailed
    [] status = "pending" -> StatusApproved

\* UPDATE governance_proposals SET status = $1, executed_at = CASE WHEN
\* $1 = 'EXECUTED' THEN NOW() ELSE NULL END, last_chain_tx = $2
execute_proposal_update(row, status, now) ==
  [ row EXCEPT !.status = execute_new_status(status),
               !.executed_at = IF execute_new_status(status) = StatusExecuted
                               THEN now ELSE NoTime,
               !.last_chain_tx = TxHash ]

execute_proposal(p, status) ==
  /\ GovCallAllowed(status)
  /\ govProposals' = [govProposals EXCEPT ![p] =
       IF @.exists THEN execute_proposal_update(@, status, govNow) ELSE @]
  /\ govChainSync' = Append(govChainSync, GovChainSyncRow(p, "EXECUTE", status))
  /\ govNow' = govNow + 1
  /\ UNCHANGED govApprovals
  /\ UNCHANGED nonGovServiceVars

gs_cancel_proposal(p, status) ==
  /\ GovCallAllowed(status)
  /\ govProposals' = [govProposals EXCEPT ![p] =
       IF @.exists /\ status = "success"
       THEN [ @ EXCEPT !.status = StatusCancelled, !.last_chain_tx = TxHash ]
       ELSE @]
  /\ govChainSync' = Append(govChainSync, GovChainSyncRow(p, "CANCEL", status))
  /\ govNow' = govNow + 1
  /\ UNCHANGED govApprovals
  /\ UNCHANGED nonGovServiceVars

gs_revoke_approval(p, signer_address, status) ==
  /\ GovCallAllowed(status)
  /\ govApprovals' = [govApprovals EXCEPT ![p] =
       IF status = "success" THEN @ \ {signer_address} ELSE @]
  /\ govChainSync' = Append(govChainSync, GovChainSyncRow(p, "REVOKE", status))
  /\ govNow' = govNow + 1
  /\ UNCHANGED govProposals
  /\ UNCHANGED nonGovServiceVars

GovServiceInit ==
  /\ govProposals = [p \in PIds |-> NoProposalRow]
  /\ govApprovals = [p \in PIds |-> {}]
  /\ govChainSync = <<>>
  /\ govNow = 1

GovServiceNext ==
  \/ \E p \in PIds, a \in Addresses, st \in TxStatuses : gs_create_proposal(p, a, st)
  \/ \E p \in PIds, a \in Addresses, st \in TxStatuses : approve_proposal(p, a, st)
  \/ \E p \in PIds, st \in TxStatuses : execute_proposal(p, st)
  \/ \E p \in PIds, st \in TxStatuses : gs_cancel_proposal(p, st)
  \/ \E p \in PIds, a \in Addresses, st \in TxStatuses : gs_revoke_approval(p, a, st)

(***************************************************************************)
(* SorobanService::monitor_transaction and the end of invoke               *)
(***************************************************************************)
\* RetryConfig::default
max_retries == 3
initial_delay_ms == 1000
max_delay_ms == 10000
backoff_multiplier == 2

\* What one get_transaction_status call gives: Ok("SUCCESS"), Ok("FAILED"),
\* Ok("NOT_FOUND"), Ok of any other string (PENDING stands for all of them),
\* or Err (rpc_error).
StatusAnswers == {"SUCCESS", "FAILED", "NOT_FOUND", "PENDING"}
RpcAnswers == StatusAnswers \cup {"rpc_error"}

NotReturned == ""

\* (delay as f64 * backoff_multiplier) as u64, then min(max_delay_ms)
next_delay(d) ==
  IF d * backoff_multiplier <= max_delay_ms THEN d * backoff_multiplier
  ELSE max_delay_ms

\* what the loop body returns for this answer, or NotReturned when it goes on
\* to sleep; retries_left is the test attempt >= max_retries, negated
loop_return(answer, retries_left) ==
  CASE answer = "SUCCESS" -> "Success"
    [] answer = "FAILED" -> "Failed"
    [] answer = "NOT_FOUND" ->
         IF retries_left THEN NotReturned ELSE "RetryLimitExceeded"
    [] answer = "rpc_error" ->
         IF retries_left THEN NotReturned ELSE "RpcError"
    [] OTHER ->
         IF retries_left THEN NotReturned ELSE "Pending"

\* one turn of the loop with the test attempt > max_retries
monitor_transaction_one_more_retry(answer) ==
  /\ monitorResult = NotReturned
  /\ statusAnswers' = Append(statusAnswers, answer)
  /\ monitorResult' = loop_return(answer, attempt <= max_retries)
  /\ IF monitorResult' = NotReturned
     THEN /\ attempt' = attempt + 1
          /\ sleeps' = Append(sleeps, delay)
          /\ delay' = next_delay(delay)
     ELSE UNCHANGED << attempt, sleeps, delay >>
  /\ UNCHANGED invokeResult
  /\ UNCHANGED nonMonitorVars

\* one turn of the loop of monitor_transaction: the status query, the match
\* on its answer and, unless the function returns, the sleep and the backoff
monitor_transaction(answer) ==
  /\ monitorResult = NotReturned
  /\ statusAnswers' = Append(statusAnswers, answer)
  /\ monitorResult' = loop_return(answer, attempt < max_retries)
  /\ IF monitorResult' = NotReturned
     THEN /\ attempt' = attempt + 1
          /\ sleeps' = Append(sleeps, delay)
          /\ delay' = next_delay(delay)
     ELSE UNCHANGED << attempt, sleeps, delay >>
  /\ UNCHANGED invokeResult
  /\ UNCHANGED nonMonitorVars

\* invoke, step 4: monitor_transaction(...).await.unwrap_or_else(Pending),
\* then Ok(result)
invoke_return ==
  /\ monitorResult /= NotReturned
  /\ ~invokeResult.returned
  /\ invokeResult' =
       IF monitorResult \in {"Success", "Failed", "Pending"}
       THEN [ returned |-> TRUE, ok |-> TRUE, status |-> monitorResult ]
       ELSE [ returned |-> TRUE, ok |-> TRUE, status |-> "Pending" ]
  /\ UNCHANGED << attempt, delay, statusAnswers, sleeps, monitorResult >>
  /\ UNCHANGED nonMonitorVars

MonitorInit ==
  /\ attempt = 0
  /\ delay = initial_delay_ms
  /\ statusAnswers = <<>>
  /\ sleeps = <<>>
  /\ monitorResult = NotReturned
  /\ invokeResult = [ returned |-> FALSE, ok |-> FALSE, status |-> "" ]

MonitorNext ==
  \/ \E answer \in RpcAnswers : monitor_transaction(answer)
  \/ invoke_return

Init ==
  /\ GovInit /\ SlashInit /\ MatchInit /\ ReconcileInit /\ FsmInit
  /\ GovServiceInit /\ MonitorInit

SpecGov == Init /\ [][GovNext]_vars

SpecSlash == Init /\ [][SlashNext]_vars

SpecMatch == Init /\ [][MatchNext]_vars

SpecReconcile == Init /\ [][ReconcileNext]_vars

SpecFsm == Init /\ [][FsmNext]_vars

SpecGovService == Init /\ [][GovServiceNext]_vars

SpecMonitor == Init /\ [][MonitorNext]_vars

(***************************************************************************)
(* Governance claims                                                       *)
(***************************************************************************)
NoDuplicates(s) == \A i, j \in 1..Len(s) : s[i] = s[j] => i = j

\* C1 as stated: the target of a proposal is invoked at most once, the guard
\* and the status Executed are written before the invocation, and every
\* later execute(p), whoever the executor is, fails with
\* ProposalAlreadyExecuted.
C1_AsStated ==
  \A p \in PIds :
    /\ externalCalls[p] <= 1
    /\ (\E i \in 1..Len(callStack) : callStack[i] = p)
         => executedGuard[p] /\ proposals[p].status = Executed
    /\ externalCalls[p] >= 1 =>
         \A a \in Addresses : execute_result(a, p) = "ProposalAlreadyExecuted"

\* C1 (amended): the target of a proposal is invoked at most once; while the
\* target is being invoked, and ever after, the guard is true and the status
\* is Executed; every later execute(p) fails: with ProposalAlreadyExecuted
\* when the executor is an active signer, with NotASigner when it is not.
C1_SingleExecution ==
  \A p \in PIds :
    /\ externalCalls[p] <= 1
    /\ (\E i \in 1..Len(callStack) : callStack[i] = p)
         => executedGuard[p] /\ proposals[p].status = Executed
    /\ externalCalls[p] >= 1 =>
         \A a \in Addresses :
           execute_result(a, p) =
             IF is_active_signer(a) THEN "ProposalAlreadyExecuted"
             ELSE "NotASigner"

\* an execute(p) by an active signer arrives while the target of p is invoked
C1_Witness ==
  \E p \in PIds :
    /\ callStack = <<p>>
    /\ externalCalls[p] = 1
    /\ \E a \in Addresses : execute_result(a, p) = "ProposalAlreadyExecuted"

\* C2 as stated: once execute(p) has succeeded the status stays Executed and
\* the guard true, and approve, revoke_approval, cancel_proposal and execute
\* on p all fail with ProposalAlreadyExecuted, whoever calls.
C2_AsStated ==
  \A p \in PIds :
    externalCalls[p] >= 1 =>
      /\ proposals[p].status = Executed
      /\ executedGuard[p]
      /\ \A a \in Addresses :
           /\ approve_result(a, p) = "ProposalAlreadyExecuted"
           /\ revoke_approval_result(a, p) = "ProposalAlreadyExecuted"
           /\ cancel_proposal_result(a, p) = "ProposalAlreadyExecuted"
           /\ execute_result(a, p) = "ProposalAlreadyExecuted"

\* C2 (amended): once execute(p) has succeeded the status stays Executed and
\* the guard true; cancel_proposal on p fails with ProposalAlreadyExecuted
\* for every caller, and approve, revoke_approval and execute on p fail with
\* ProposalAlreadyExecuted for an active signer and with NotASigner for any
\* other caller (a failed call changes nothing).
C2_ExecutedAbsorbing ==
  \A p \in PIds :
    externalCalls[p] >= 1 =>
      /\ proposals[p].status = Executed
      /\ executedGuard[p]
      /\ \A a \in Addresses :
           LET expected == IF is_active_signer(a)
                           THEN "ProposalAlreadyExecuted" ELSE "NotASigner"
           IN /\ approve_result(a, p) = expected
              /\ revoke_approval_result(a, p) = expected
              /\ execute_result(a, p) = expected
              /\ cancel_proposal_result(a, p) = "ProposalAlreadyExecuted"

\* the proposer of an executed proposal, still a signer, tries to cancel it
\* after the target has returned
C2_Witness ==
  \E p \in PIds :
    /\ externalCalls[p] = 1
    /\ callStack = <<>>
    /\ is_active_signer(proposals[p].proposer)
    /\ cancel_proposal_result(proposals[p].proposer, p) = "ProposalAlreadyExecuted"
    /\ approvals[p] /= <<>>

\* C10 as stated: the ApprovalSet holds no signer twice, approval_count is
\* its size, and an approve(s,p) by a signer already in the set fails with
\* AlreadyApproved.
C10_AsStated ==
  \A p \in PIds :
    /\ NoDuplicates(approvals[p])
    /\ proposals[p].approval_count = Len(approvals[p])
    /\ \A a \in SeqRange(approvals[p]) : approve_result(a, p) = "AlreadyApproved"

\* C10 (amended): the ApprovalSet holds no signer twice and approval_count is
\* its size; an approve(s,p) by a signer already in the set always fails and
\* leaves the set and the count unchanged, with AlreadyApproved when s is
\* still an active signer and p is neither executed, cancelled nor expired
\* (otherwise with the error of the earlier check that rejects the call).
C10_ApprovalSetIntegrity ==
  \A p \in PIds :
    /\ NoDuplicates(approvals[p])
    /\ proposals[p].approval_count = Len(approvals[p])
    /\ \A a \in SeqRange(approvals[p]) :
         /\ approve_result(a, p) /= "Ok"
         /\ ( /\ is_active_signer(a)
              /\ ~executedGuard[p]
              /\ proposals[p].status \notin {Executed, Cancelled}
              /\ ~IsExpired(p) )
            => approve_result(a, p) = "AlreadyApproved"

\* two signers are in the approval set of an open proposal and one of them
\* approves again
C10_Witness ==
  \E p \in PIds :
    /\ Len(approvals[p]) = 2
    /\ proposals[p].status = Pending
    /\ \E a \in SeqRange(approvals[p]) : approve_result(a, p) = "AlreadyApproved"

\* C11: after initialize, 1 <= threshold <= |signers| <= 20, where |signers|
\* is the number of distinct active signers and equals the stored signer
\* count and the length of the signer list.
C11_SignerSetInvariant ==
  initialized =>
    /\ 1 <= threshold
    /\ threshold <= Cardinality(signerInfo)
    /\ Cardinality(signerInfo) <= max_signers
    /\ Cardinality(signerInfo) = signerCount
    /\ signerCount = Len(signerList)

\* C12: execute(executor, p) succeeds only if the executor is an active
\* signer and the stored status of p is Approved and p is not expired; a
\* Pending proposal is never executed, whatever the threshold is.
C12_ExecuteRequiresApproved ==
  \A a \in Addresses, p \in PIds :
    execute_result(a, p) = "Ok" =>
      /\ is_active_signer(a)
      /\ proposals[p].status = Approved
      /\ ~IsExpired(p)

\* C13: once the contract is initialized, the signer set and the threshold
\* change only while a proposal is being executed (its target is being
\* invoked); a call of internal_add_signer, internal_remove_signer or
\* internal_update_threshold made outside an execution changes nothing.
C13_SelfGovernanceGated ==
  [][ (initialized /\ callStack = <<>>) =>
        UNCHANGED << signerInfo, signerList, signerCount, threshold >> ]_vars

\* the status changes C14 allows
AllowedStatusMoves ==
  { <<Pending, Approved>>, <<Approved, Executed>>, <<Pending, Cancelled>>,
    <<Approved, Cancelled>>, <<Approved, Pending>> }

\* C14: the status of a stored proposal moves only along Pending->Approved,
\* Approved->Executed, Pending->Cancelled, Approved->Cancelled and
\* Approved->Pending; once it is Cancelled no operation changes it.
C14_CancelledIsTerminal ==
  [][ \A p \in PIds :
        proposals[p].exists =>
          \/ proposals'[p].status = proposals[p].status
          \/ << proposals[p].status, proposals'[p].status >>
                \in AllowedStatusMoves ]_vars


\* C24: threshold evaluation on approve and revoke.  Right after a
\* successful approve or revoke_approval on p (the steps that change the
\* ApprovalSet of p), the status of p is Approved if its approval_count has
\* reached the threshold and Pending otherwise.
C24_ThresholdEvaluation ==
  [][ \A p \in PIds :
        approvals'[p] /= approvals[p] =>
          proposals'[p].status =
            IF proposals'[p].approval_count >= threshold' THEN Approved
            ELSE Pending ]_vars

\* C25: the approve, revoke, approve round trip.  For a signer s whose
\* approve of the open proposal p succeeds, approve(s, p) followed by
\* revoke_approval(s, p) and approve(s, p) again leaves the approval_count,
\* the ApprovalSet (as a set) and the status of p as the first approve alone
\* leaves them.  (After the first approve s is a signer that has approved,
\* and after the revoke one that has not: both later calls pass their
\* checks.)
C25_ApproveRevokeApprove ==
  \A s \in Addresses, p \in PIds :
    approve_result(s, p) = "Ok" =>
      LET once == approve_update(proposals[p], approvals[p], s)
          revoked == revoke_approval_update(once.proposal, once.approvals, s)
          again == approve_update(revoked.proposal, revoked.approvals, s)
      IN /\ again.proposal.approval_count = once.proposal.approval_count
         /\ SeqRange(again.approvals) = SeqRange(once.approvals)
         /\ again.proposal.status = once.proposal.status

\* p is stored, neither executed nor cancelled, and the ledger time is past
\* its expiry
ExpiredOpen(p) ==
  /\ proposals[p].exists
  /\ proposals[p].status \notin {Executed, Cancelled}
  /\ ~executedGuard[p]
  /\ govTime > proposals[p].expiry

\* the expiry of every proposal is its creation time plus the TTL of 7 days,
\* and approve and execute by an active signer on an expired open proposal
\* return ProposalExpired
ExpiryRejections ==
  \A p \in PIds :
    /\ proposals[p].exists =>
         proposals[p].expiry = proposals[p].created_at + 7 * 24 * 60 * 60
    /\ ExpiredOpen(p) =>
         \A a \in Addresses :
           is_active_signer(a) =>
             /\ approve_result(a, p) = "ProposalExpired"
             /\ execute_result(a, p) = "ProposalExpired"

\* C26: expiry.  A proposal created at t expires at t + TTL; once an open
\* proposal is expired, approve and execute by an active signer fail with
\* ProposalExpired, so that no step adds an approval to it, sets its
\* execution guard, makes it Approved or Executed, or calls its target.
C26_Expiry ==
  /\ []ExpiryRejections
  /\ [][ \A p \in PIds :
           ExpiredOpen(p) =>
             /\ Len(approvals'[p]) <= Len(approvals[p])
             /\ proposals'[p].approval_count <= proposals[p].approval_count
             /\ executedGuard'[p] = executedGuard[p]
             /\ externalCalls'[p] = externalCalls[p]
             /\ proposals'[p].status \in {proposals[p].status, Pending, Cancelled} ]_vars

\* an expired proposal that has the approvals it needs and that a signer
\* who has not approved could otherwise approve
C26_Witness ==
  \E p \in PIds, a \in Addresses :
    /\ ExpiredOpen(p)
    /\ proposals[p].status = Approved
    /\ proposals[p].approval_count >= threshold
    /\ is_active_signer(a) /\ ~has_approved(p, a)
    /\ approve_result(a, p) = "ProposalExpired"
    /\ execute_result(a, p) = "ProposalExpired"

\* execute by an active signer, before execute_after, on an Approved
\* proposal that has not expired returns ExecutionTooEarly
TooEarlyRejected ==
  \A p \in PIds :
    (/\ proposals[p].exists
     /\ proposals[p].status = Approved
     /\ govTime <= proposals[p].expiry
     /\ proposals[p].execute_after /= None
     /\ govTime < proposals[p].execute_after)
    => /\ ~executedGuard[p]
       /\ \A a \in Addresses :
            is_active_signer(a) => execute_result(a, p) = "ExecutionTooEarly"

\* C27: time-delayed execution.  For an Approved, unexpired proposal with
\* execute_after = d, execute at a ledger time before d fails with
\* ExecutionTooEarly and leaves the guard false and the status Approved; the
\* target of a proposal with execute_after = d is called only at a time
\* now >= d.
C27_TimeDelayedExecution ==
  /\ []TooEarlyRejected
  /\ [][ \A p \in PIds :
           externalCalls'[p] /= externalCalls[p] =>
             \/ proposals[p].execute_after = None
             \/ govTime >= proposals[p].execute_after ]_vars

C29_RemoveSignerRejections ==
  \A a \in Addresses :
    (initialized /\ is_active_signer(a)) =>
      /\ Cardinality(signerInfo) = 1 =>
           internal_remove_signer_result(a) = "CannotRemoveLastSigner"
      /\ (Cardinality(signerInfo) > 1 /\ Cardinality(signerInfo) - 1 < threshold) =>
           internal_remove_signer_result(a) = "ThresholdExceedsSigners"

(***************************************************************************)
(* Slashing claims                                                         *)
(***************************************************************************)
\* C8: once the BanRecord of a subject is permanent, no slashing operation
\* changes that record, and is_banned(subject) stays true.
C8_PermanentBanImmutable ==
  [][ \A u \in Subjects :
        is_permanently_banned(u) =>
          /\ banned'[u] = banned[u]
          /\ is_banned(u)' ]_vars

\* C9: the penalty of a case is applied at most once; once execute_penalty(c)
\* has succeeded the status of c is Executed, is_case_executed(c) is true, and
\* every further execute_penalty(c), whatever the penalty asked for, fails
\* with "case already executed".
C9_SingleCaseExecution ==
  \A c \in CaseIds :
    /\ penaltiesApplied[c] <= 1
    /\ penaltiesApplied[c] >= 1 =>
         /\ cases[c].status = SlashExecuted
         /\ is_case_executed(c)
         /\ \A pt \in PenaltyTypes, am \in Amounts, as \in Assets, du \in Durations :
              execute_penalty_result(c, pt, am, as, du) = "case already executed"

\* a case was executed, and a second case against the same subject is still
\* approved and executable
C9_Witness ==
  \E c, d \in CaseIds :
    /\ c /= d
    /\ penaltiesApplied[c] = 1
    /\ cases[d].exists /\ cases[d].subject = cases[c].subject
    /\ cases[d].status = SlashApproved
    /\ execute_penalty_result(c, PermanentBan, {}, {}, {}) = "case already executed"

\* C21: no new case against a permanently banned subject.  While the
\* BanRecord of a subject is permanent, open_case with that subject fails
\* with "subject already permanently banned" for every unused case id, so no
\* case against the subject was created later than the record's banned_at.
C21_NoCaseAfterPermanentBan ==
  \A u \in Subjects :
    is_permanently_banned(u) =>
      \A c \in CaseIds :
        /\ ~cases[c].exists =>
             open_case_result(c, u) = "subject already permanently banned"
        /\ (cases[c].exists /\ cases[c].subject = u) =>
             cases[c].created_at <= banned[u].banned_at

\* a subject was permanently banned, the ledger has moved on since, and a
\* case id is still unused
C21_Witness ==
  \E u \in Subjects, c \in CaseIds :
    /\ is_permanently_banned(u)
    /\ slTime > banned[u].banned_at
    /\ ~cases[c].exists
    /\ open_case_result(c, u) = "subject already permanently banned"

\* the status changes the claim lists
CaseStatusMoves ==
  { << Proposed, SlashApproved >>, << SlashApproved, SlashExecuted >>,
    << Proposed, SlashCancelled >> }

\* every call is refused on a case in a status it does not start from
CaseCallsGuarded ==
  \A c \in CaseIds :
    cases[c].exists =>
      /\ cases[c].status /= Proposed =>
           /\ approve_case_result(c) = "invalid case status"
           /\ cancel_case_result(c) = "can only cancel proposed cases"
      /\ cases[c].status /= SlashApproved =>
           \A pt \in PenaltyTypes, am \in Amounts, as \in Assets, du \in Durations :
             execute_penalty_result(c, pt, am, as, du)
               \in {"case not approved", "case already executed"}

\* C22: the slash case lifecycle.  The status of a case changes only along
\* Proposed -> Approved, Approved -> Executed and Proposed -> Cancelled;
\* approve_case and cancel_case fail on a case that is not Proposed and
\* execute_penalty on a case that is not Approved; a case once stored stays
\* stored, and Executed and Cancelled are left by no step.
C22_CaseLifecycle ==
  /\ []CaseCallsGuarded
  /\ [][ \A c \in CaseIds :
           cases[c].exists =>
             /\ cases'[c].exists
             /\ \/ cases'[c].status = cases[c].status
                \/ << cases[c].status, cases'[c].status >> \in CaseStatusMoves ]_vars

\* one case is Executed and the other Cancelled, and each refuses approve_case
C22_Witness ==
  \E c, d \in CaseIds :
    /\ cases[c].exists /\ cases[c].status = SlashExecuted
    /\ cases[d].exists /\ cases[d].status = SlashCancelled
    /\ approve_case_result(c) = "invalid case status"
    /\ approve_case_result(d) = "invalid case status"

\* C23: is_banned(subject) at ledger time now is true exactly when the
\* subject's BanRecord is permanent, or is temporary with expires_at > now;
\* it is false without a BanRecord and from the ledger time expires_at on.
C23_IsBannedMeaning ==
  \A u \in Subjects :
    /\ is_banned(u) <=>
         /\ banned[u].exists
         /\ \/ banned[u].is_permanent
            \/ /\ ~banned[u].is_permanent
               /\ banned[u].expires_at /= None
               /\ banned[u].expires_at > slTime
    /\ ~banned[u].exists => ~is_banned(u)
    /\ (banned[u].exists /\ ~banned[u].is_permanent
          /\ banned[u].expires_at <= slTime) => ~is_banned(u)

\* a temporary suspension at the very ledger time it expires, next to a
\* subject that has no record
C23_Witness ==
  \E u, v \in Subjects :
    /\ banned[u].exists /\ ~banned[u].is_permanent
    /\ banned[u].expires_at = slTime
    /\ ~is_banned(u)
    /\ ~banned[v].exists /\ ~is_banned(v)

(***************************************************************************)
(* Match authority claims                                                  *)
(***************************************************************************)
\* C3: for every match the rows of match_transitions, in order, form a path
\* of the FSM graph: each row is a legal edge or a self-loop and the
\* from_state of a row is the to_state of the row before it.
C3_TransitionLogIsPath ==
  \A m \in MatchIds :
    LET rows == TransitionsOf(transitions, m)
    IN /\ \A i \in 1..Len(rows) :
            can_transition_to(rows[i].from_state, rows[i].to_state)
       /\ \A i \in 1..(Len(rows) - 1) :
            rows[i + 1].from_state = rows[i].to_state

\* C4: once the stored state of a match is Finalized no step of any service
\* operation changes it.
C4_FinalizedIsTerminal ==
  [][ \A m \in MatchIds :
        matches[m].state = Finalized => matches'[m].state = Finalized ]_vars

\* the requests on match m that have read its state for the FSM validation
\* and have not committed their new state yet
BetweenReadAndCommit(m) ==
  { w \in Workers : /\ workers[w].op \in TransitionOps
                    /\ workers[w].match_id = m
                    /\ workers[w].pc \in {"chain", "update"} }

\* C5: the mutating operations on one match are serialized: while one of
\* them is between its read of the match state and its commit, no other
\* mutating operation on that match has read the state for its own
\* validation.
C5_PerMatchSerialization ==
  \A m \in MatchIds : Cardinality(BetweenReadAndCommit(m)) <= 1

\* C6: a create_match with key k and the same payload, begun after a
\* create_match with key k has completed, issues no chain call, inserts no
\* second row and returns the response the first one returned (the same
\* match and the same transitions).
C6_IdempotentCreateRetry ==
  /\ \A k \in Keys : Cardinality(get_match_by_idempotency_key(k)) <= 1
  /\ \A w \in Workers :
       LET me == workers[w]
       IN (me.op = "create_match" /\ me.after_completed) =>
            /\ me.pc = "respond" /\ me.dedup
            /\ ( /\ me.player_a = matches[me.match_id].player_a
                 /\ me.player_b = matches[me.match_id].player_b )
               => get_match_with_transitions(me.match_id) = firstResp[me.key]

\* C7: of the create_match calls carrying one idempotency key, concurrent
\* ones included, one inserts the row and invokes the chain; the chain
\* function create_match is invoked at most once for a key, and one row at
\* most carries it.
C7_ConcurrentCreateOnce ==
  \A k \in Keys :
    /\ chainCalls[<<"create_match", k>>] <= 1
    /\ Cardinality(get_match_by_idempotency_key(k)) <= 1

\* C15: a chain invocation that fails changes nothing.  When a request whose
\* invocation returned an error, or whose transaction the gateway reported
\* as failed, takes its next step, the match rows, the transition log and the
\* chain-sync log stay as they are and the request ends (with the error).
C15_NoChangeOnChainFailure ==
  [][ \A w \in Workers :
        /\ (workers[w].pc = "chain" /\ workers'[w] = IdleWorker)
             => UNCHANGED << matches, transitions, chainSync >>
        /\ (workers[w].tx_status = "failed" /\ workers'[w] /= workers[w])
             => /\ UNCHANGED << matches, transitions, chainSync >>
                /\ workers'[w] = IdleWorker ]_vars

\* C16: an invalid transition has no effect.  An operation requested on a
\* match whose state does not allow the operation's target state is rejected
\* with the invalid-transition error (a 400 bad request), so that every
\* request that went on to its chain call or to its writes read a state that
\* allows its target.
C16_InvalidTransitionNoEffect ==
  /\ \A op \in TransitionOps, m \in MatchIds : \A arg \in ArgsOf(op) :
        ~can_transition_to(matches[m].state, TargetState(op))
          => transition_check(op, m, arg) = "bad_request"
  /\ \A w \in Workers :
        workers[w].op \in TransitionOps
          => can_transition_to(workers[w].from, TargetState(workers[w].op))

\* complete_match on a Created match whose id a caller knows is rejected
C16_Witness ==
  \E m \in returnedIds :
    /\ matches[m].state = Created
    /\ ~can_transition_to(Created, TargetState("complete_match"))
    /\ transition_check("complete_match", m, matches[m].player_a) = "bad_request"
    /\ chainCalls[<<"complete_match", NoKey>>] = 0

\* the states the claim names for each operation
StatedPrecondition(op) ==
  CASE op = "start_match" -> {Created}
    [] op = "complete_match" -> {Started}
    [] op = "raise_dispute" -> {Completed}
    [] op = "finalize_match" -> {Completed, Disputed}

\* C17: operation preconditions.  start_match goes on to its chain call and
\* its writes only from Created, complete_match only from Started,
\* raise_dispute only from Completed, finalize_match only from Completed or
\* Disputed; in every other state of the match, the operation's own target
\* state included, the request is rejected as an invalid transition.
C17_OperationPreconditions ==
  /\ \A w \in Workers :
        workers[w].op \in TransitionOps
          => workers[w].from \in StatedPrecondition(workers[w].op)
  /\ \A op \in TransitionOps, m \in MatchIds : \A arg \in ArgsOf(op) :
        matches[m].state \notin StatedPrecondition(op)
          => transition_check(op, m, arg) = "bad_request"

\* The states match m has on chain ahead of the database: those a
\* transaction reported successful has put it in while the request that
\* sent the transaction has not written the database yet.
SucceededOnChain(m) ==
  { TargetState(workers[w].op) :
      w \in { v \in Workers : /\ workers[v].match_id = m
                              /\ workers[v].pc = "update"
                              /\ workers[v].tx_status = "success" } }

\* C18: reconciliation repair.  A reconcile_match call on m whose on-chain
\* state is a legal FSM successor of the database state advances the
\* database state to it and appends the missing transition row with actor
\* "reconciler"; every other reconcile_match call leaves the state of m as
\* it is, so that no call moves it backward.
C18_ReconciliationRepair ==
  [][ \A m \in MatchIds :
        (/\ Len(reconLog') = Len(reconLog) + 1
         /\ reconLog'[Len(reconLog')].match_id = m)
        => LET db == matches[m].state
               ahead == { st \in SucceededOnChain(m) :
                            st /= db /\ can_transition_to(db, st) }
           IN IF ahead /= {}
              THEN \E st \in ahead :
                     /\ matches'[m].state = st
                     /\ Len(transitions') = Len(transitions) + 1
                     /\ LET row == transitions'[Len(transitions')]
                        IN /\ row.match_id = m /\ row.from_state = db
                           /\ row.to_state = st /\ row.actor = "reconciler"
              ELSE matches'[m].state = db ]_vars

\* the string s names the FSM state st, in either spelling
Denotes(s, st) == s = ScreamingSnakeCase(st) \/ s = DebugFormat(st)

\* C19: the reconciliation verdict.  Every reconcile_match call has appended
\* one log entry; the call returned true exactly when the on-chain state it
\* read denotes the database state it read, and the entry's is_divergent is
\* the negation of what the call returned.  So a match that is Created in
\* the database and CREATED on chain is reported synchronized.
C19_ReconciliationVerdict ==
  \A i \in 1..Len(reconLog) :
    LET e == reconLog[i]
    IN /\ e.returned <=> Denotes(e.on_chain_state, e.off_chain_state)
       /\ e.is_divergent <=> ~e.returned

\* the edges the claim lists
StatedEdges ==
  { <<Created, Started>>, <<Started, Completed>>, <<Completed, Disputed>>,
    <<Completed, Finalized>>, <<Disputed, Finalized>> }

\* C20: the FSM validation table.  For all states from and to,
\* can_transition_to and validate_transition accept exactly when from = to
\* or (from, to) is one of the five listed edges; for from /= to this is the
\* same as to being among valid_next_states(from); and is_terminal holds
\* exactly for Finalized.
C20_FsmValidationTable ==
  \A i \in 1..Len(fsmChecks) :
    LET c == fsmChecks[i]
        listed == c.from = c.to \/ << c.from, c.to >> \in StatedEdges
        next == c.valid_next_states
    IN /\ c.can_transition_to <=> listed
       /\ (c.validate_transition = "Ok") <=> listed
       /\ c.from /= c.to => (listed <=> \E k \in 1..Len(next) : next[k] = c.to)
       /\ c.is_terminal <=> c.from = Finalized

\* the functions were asked about Finalized -> Started (refused, terminal)
\* and about Completed -> Disputed (accepted, a listed edge)
C20_Witness ==
  /\ \E i \in 1..Len(fsmChecks) :
        /\ fsmChecks[i].from = Finalized /\ fsmChecks[i].to = Started
        /\ ~fsmChecks[i].can_transition_to /\ fsmChecks[i].is_terminal
  /\ \E i \in 1..Len(fsmChecks) :
        /\ fsmChecks[i].from = Completed /\ fsmChecks[i].to = Disputed
        /\ fsmChecks[i].can_transition_to /\ ~fsmChecks[i].is_terminal

\* the number of transactions submitted for the contract function op
CallsOf(op) == SumOver([k \in Keys \cup {NoKey} |-> chainCalls[<<op, k>>]],
                       Keys \cup {NoKey})

\* the requests made so far are one create_match, one start_match, one
\* complete_match and one finalize_match, all of them finished
FourSteps ==
  /\ \A w \in Workers : workers[w].pc = "idle"
  /\ CallsOf("create_match") = 1 /\ CallsOf("start_match") = 1
  /\ CallsOf("complete_match") = 1 /\ CallsOf("finalize_match") = 1
  /\ CallsOf("raise_dispute") = 0

\* create, start, complete, finalize yield 4 transition rows, 4 chain-sync
\* rows, the state Finalized and a winner among the players
FourStepsOutcome ==
  FourSteps =>
    /\ Len(matches) = 1
    /\ matches[1].state = Finalized
    /\ matches[1].winner \in {matches[1].player_a, matches[1].player_b}
    /\ Len(transitions) = 4 /\ Len(chainSync) = 4
    /\ \A i \in 1..4 : /\ transitions[i].match_id = 1
                       /\ chainSync[i].match_id = 1
                       /\ chainSync[i].tx_status = "pending"

PlayersOf(m) == {matches[m].player_a, matches[m].player_b}

\* C31: winner validity.  The stored winner of every match is empty or one
\* of its two players; complete_match with a winner that is neither player
\* is rejected (400) before any chain call, so no request in progress
\* carries such a winner.
C31_WinnerValidity ==
  /\ \A m \in MatchIds : matches[m].winner \in PlayersOf(m) \cup {""}
  /\ \A m \in MatchIds : \A arg \in PlayerStrings :
       arg \notin PlayersOf(m) =>
         transition_check("complete_match", m, arg) = "bad_request"
  /\ \A w \in Workers :
       workers[w].op = "complete_match" =>
         workers[w].arg \in PlayersOf(workers[w].match_id)

\* a winner is stored on a match for which a well-formed string that is
\* neither player exists
C31_Witness ==
  \E m \in MatchIds :
    /\ matches[m].winner /= ""
    /\ \E arg \in PlayerStrings : ValidLength(arg) /\ arg \notin PlayersOf(m)


\* C32: dispute authorization.  raise_dispute on a Completed match by an
\* actor that is neither player is answered forbidden before any chain call;
\* every raise_dispute in progress, and every recorded transition to
\* Disputed, has one of the two players as actor.
C32_DisputeAuthorization ==
  /\ \A m \in MatchIds : \A actor \in PlayerStrings :
       (matches[m].state = Completed /\ actor \notin PlayersOf(m)) =>
         transition_check("raise_dispute", m, actor) = "forbidden"
  /\ \A w \in Workers :
       workers[w].op = "raise_dispute" =>
         workers[w].arg \in PlayersOf(workers[w].match_id)
  /\ \A i \in 1..Len(transitions) :
       transitions[i].to_state = Disputed =>
         transitions[i].actor \in PlayersOf(transitions[i].match_id)

\* a player's dispute is on its way to the chain while the match is still
\* Completed, the state in which another actor is refused
C32_Witness ==
  \E w \in Workers :
    /\ workers[w].op = "raise_dispute" /\ workers[w].pc = "chain"
    /\ matches[workers[w].match_id].state = Completed
    /\ \E actor \in PlayerStrings : actor \notin PlayersOf(workers[w].match_id)


\* C33: distinct players.  create_match goes to the chain and inserts a
\* match only when player_a differs from player_b, so every stored match has
\* two distinct players.
C33_DistinctPlayers ==
  /\ \A w \in Workers :
       (workers[w].op = "create_match" /\ workers[w].pc \in {"chain", "insert"}) =>
         workers[w].player_a /= workers[w].player_b
  /\ \A m \in MatchIds : matches[m].player_a /= matches[m].player_b


\* C34: timestamps are monotone.  For every match, among the timestamps that
\* are set, created_at <= started_at <= ended_at.
C34_TimestampsMonotone ==
  \A m \in MatchIds :
    LET r == matches[m]
    IN /\ r.started_at /= NoTime => r.created_at <= r.started_at
       /\ r.ended_at /= NoTime => r.created_at <= r.ended_at
       /\ (r.started_at /= NoTime /\ r.ended_at /= NoTime) =>
            r.started_at <= r.ended_at


\* C35: backend proposal row, Executed is final.  Once a row of
\* governance_proposals has status EXECUTED, no later execute_proposal,
\* cancel_proposal, approve_proposal or revoke_approval call, whatever
\* transaction status the gateway returns, changes the row's status or clears
\* its executed_at.
C35_ExecutedRowFinal ==
  [][ \A p \in PIds :
        govProposals[p].status = StatusExecuted =>
          /\ govProposals'[p].status = StatusExecuted
          /\ govProposals'[p].executed_at /= NoTime ]_vars


\* C36: winner and completion data are stable under retry.  Once
\* complete_match has stored a winner, no later operation on the match
\* changes the stored winner or ended_at.
C36_WinnerStable ==
  [][ \A m \in MatchIds :
        matches[m].winner /= "" =>
          /\ matches'[m].winner = matches[m].winner
          /\ matches'[m].ended_at = matches[m].ended_at ]_vars



\* the addresses in the ApprovalSet of p that are active signers
ActiveApprovers(p) == { a \in SeqRange(approvals[p]) : is_active_signer(a) }

\* C37: the threshold is met by current signers.  Whenever execute(p)
\* succeeds, at least threshold addresses in the ApprovalSet of p are active
\* signers at that moment.
C37_ThresholdMetByCurrentSigners ==
  [][ \A p \in PIds :
        (~executedGuard[p] /\ executedGuard'[p]) =>
          Cardinality(ActiveApprovers(p)) >= threshold ]_vars


\* C38: the status agrees with the current threshold.  Every proposal with
\* status Approved has approval_count >= threshold and every proposal with
\* status Pending has approval_count < threshold.
C38_StatusAgreesWithThreshold ==
  \A p \in PIds :
    proposals[p].exists =>
      /\ proposals[p].status = Approved => proposals[p].approval_count >= threshold
      /\ proposals[p].status = Pending => proposals[p].approval_count < threshold


\* C39: a suspension is never shortened.  When a subject with a temporary
\* BanRecord receives a further temporary BanRecord, the recorded expires_at
\* does not go down.
C39_SuspensionNeverShortened ==
  [][ \A u \in Subjects :
        ( /\ banned[u].exists /\ ~banned[u].is_permanent
          /\ banned'[u].exists /\ ~banned'[u].is_permanent ) =>
            banned'[u].expires_at >= banned[u].expires_at ]_vars


\* the waits the claim lists, in ms
StatedWaits == << 1000, 2000, 4000 >>

FinalAnswer(a) == a \in {"SUCCESS", "FAILED"}

\* the retry budget exhausted on status answers only (no RPC error): the
\* last of max_retries + 1 queries was answered and was not final
Exhausted ==
  /\ Len(statusAnswers) = max_retries + 1
  /\ \A i \in 1..Len(statusAnswers) : statusAnswers[i] \in StatusAnswers
  /\ ~FinalAnswer(statusAnswers[Len(statusAnswers)])

\* at most max_retries + 1 queries; the waits are 1000, 2000, 4000 ms and
\* never above max_delay_ms; Success or Failed is returned as soon as the
\* chain reports it; invoke reports Ok, with status Pending unless monitoring
\* returned Success or Failed
WithinRetryBudget ==
  LET n == Len(statusAnswers)
  IN /\ n <= max_retries + 1
     /\ n = max_retries + 1 => monitorResult /= NotReturned
     /\ Len(sleeps) <= Len(StatedWaits)
     /\ \A i \in 1..Len(sleeps) :
          sleeps[i] = StatedWaits[i] /\ sleeps[i] <= max_delay_ms
     /\ monitorResult = NotReturned => Len(sleeps) = n
     /\ \A i \in 1..n :
          FinalAnswer(statusAnswers[i]) =>
            /\ i = n
            /\ monitorResult = IF statusAnswers[i] = "SUCCESS" THEN "Success"
                               ELSE "Failed"
     /\ monitorResult \in {"Success", "Failed"} =>
          (n > 0 /\ FinalAnswer(statusAnswers[n]))
     /\ invokeResult.returned =>
          /\ monitorResult /= NotReturned
          /\ invokeResult.ok
          /\ invokeResult.status =
               IF monitorResult \in {"Success", "Failed"} THEN monitorResult
               ELSE "Pending"

\* C40 (as stated): transaction monitoring ends within the retry budget, and
\* on exhaustion it returns RetryLimitExceeded if the transaction was never
\* found (every answer was NOT_FOUND) and Pending otherwise.
C40_MonitoringAsStated ==
  /\ WithinRetryBudget
  /\ Exhausted =>
       monitorResult =
         IF \A i \in 1..Len(statusAnswers) : statusAnswers[i] = "NOT_FOUND"
         THEN "RetryLimitExceeded" ELSE "Pending"

\* C40 (amended): transaction monitoring ends within the retry budget, and
\* on exhaustion it returns RetryLimitExceeded if the last answer was
\* NOT_FOUND, whatever the earlier answers, and Pending otherwise.
C40_MonitoringWithinBudget ==
  /\ WithinRetryBudget
  /\ Exhausted =>
       monitorResult =
         IF statusAnswers[Len(statusAnswers)] = "NOT_FOUND"
         THEN "RetryLimitExceeded" ELSE "Pending"

\* the budget was used up after the three waits, the transaction had been
\* seen before the last query answered NOT_FOUND, and invoke has returned
C40_Witness ==
  /\ Exhausted
  /\ Len(sleeps) = max_retries
  /\ statusAnswers[1] = "PENDING"
  /\ statusAnswers[Len(statusAnswers)] = "NOT_FOUND"
  /\ invokeResult.returned

==========================================================================
